---- MODULE Spec2Model ----
(***************************************************************************)
(* Employee management server (src/unnamed/part_000, an Express app over   *)
(* one PostgreSQL database) as a state machine.                            *)
(*                                                                         *)
(* State: the two tables (users, employees), the browser's cookie jar, and *)
(* for each request handler in progress its position (pc), the request it *)
(* is serving (req) and the response it wrote (res).  A handler runs its   *)
(* synchronous prefix when the request arrives, then one step per awaited  *)
(* store statement; every store statement is atomic at the store.          *)
(*                                                                         *)
(* Strings are sequences of characters, so that LOWER(email) is computed   *)
(* character by character and the empty string is <<>>.                    *)
(*                                                                         *)
(* Modelling assumptions: the store is reachable (no connection failure);  *)
(* generateId() returns a non-empty string; salaries stay inside the       *)
(* 32-bit range of the INTEGER column.                                     *)
(***************************************************************************)
EXTENDS Integers, Sequences, FiniteSets, TLC

VARIABLES users, employees, jar, pc, req, res

\* The page public/app.js runs in: its module-level variables (cache is its
\* array employees), the two inputs it reads its filters from, the rows
\* rendered in the table body, whether its event listeners are set up, and
\* the text of the last file it offered for download.
VARIABLES cache, filteredEmployees, currentPage, rowsPerPage, sortField,
          sortDirection, searchInput, filterDepartment, tableBody, listening,
          download

serverVars == <<users, employees, jar, pc, req, res>>
pageVars ==
    <<cache, filteredEmployees, currentPage, rowsPerPage, sortField,
      sortDirection, searchInput, filterDepartment, tableBody, listening,
      download>>
\* The page's variables other than the array and the listeners' flag.
viewVars ==
    <<filteredEmployees, currentPage, rowsPerPage, sortField, sortDirection,
      searchInput, filterDepartment, tableBody, download>>
vars == <<serverVars, pageVars>>

(***************************************************************************)
(* Bounds of the model.                                                    *)
(***************************************************************************)
\* generateId() draws from this many strings, so no table outgrows it.
NumIds == 2

\* Request handlers that can be in progress at the same time.
Handlers == {"h1", "h2"}

\* The strings generateId() may return (Math.random() based: any of them,
\* whatever ids are already in use).
IdNames == <<"i1", "i2", "i3", "i4">>
Ids == {IdNames[i] : i \in 1..NumIds}

(***************************************************************************)
(* Strings and JSON values.                                                *)
(***************************************************************************)
Jane == <<"J">>
Doe == <<"D">>
CSE == <<"C">>
Emails == {<<"a">>, <<"A">>, <<"b">>}

\* A JSON number num/den, and a JSON string standing where a number should.
Num(n) == [type |-> "number", num |-> n, den |-> 1]
Frac(n, d) == [type |-> "number", num |-> n, den |-> d]
NumericString == [type |-> "string", num |-> 0, den |-> 1]

LowerChar(c) ==
    CASE c = "A" -> "a"
      [] c = "B" -> "b"
      [] c = "J" -> "j"
      [] c = "D" -> "d"
      [] c = "C" -> "c"
      [] c = "E" -> "e"
      [] c = "K" -> "k"
      [] OTHER -> c

\* PostgreSQL's LOWER(text).
Lower(s) == [i \in DOMAIN s |-> LowerChar(s[i])]

\* JavaScript's !x for a body field that is a string or undefined.
Falsy(body, f) == f \notin DOMAIN body \/ body[f] = <<>>

\* typeof salary === 'number'
IsNumber(body) == "salary" \in DOMAIN body /\ body["salary"].type = "number"

(***************************************************************************)
(* The store: table employees (id TEXT PRIMARY KEY, ..., salary INTEGER,   *)
(* userId TEXT) with the unique index on (userId, LOWER(email)).           *)
(***************************************************************************)
\* SQLSTATE values the handlers tell apart.
Success == "00000"
UniqueViolationCode == "23505"
InvalidTextRepresentation == "22P02"

\* The columns a statement RETURNs (the wire shape): all but userId.
Wire(r) ==
    [id |-> r.id, firstName |-> r.firstName, lastName |-> r.lastName,
     email |-> r.email, department |-> r.department, salary |-> r.salary]

\* The primary key on id.
PkTaken(table, id) == \E r \in table : r.id = id

\* Mutant of EmailTaken: the index built on email instead of LOWER(email).
EmailTakenCaseSensitive(table, userId, email) ==
    \E r \in table : r.userId = userId /\ r.email = email

\* The unique index employees_user_email_lower_unique.
EmailTaken(table, userId, email) ==
    \E r \in table : r.userId = userId /\ Lower(r.email) = Lower(email)

\* A parameter bound to the INTEGER column salary: a number with a
\* fractional part is not an integer's text and the statement fails.
IntegerText(salary) == salary.den = 1

\* INSERT INTO employees (...) VALUES ($1..$7) RETURNING ...
InsertEmployee(table, id, b, userId) ==
    IF ~IntegerText(b["salary"])
    THEN [code |-> InvalidTextRepresentation, table |-> table, rows |-> <<>>]
    ELSE IF PkTaken(table, id) \/ EmailTaken(table, userId, b["email"])
    THEN [code |-> UniqueViolationCode, table |-> table, rows |-> <<>>]
    ELSE LET row == [id |-> id, firstName |-> b["firstName"],
                     lastName |-> b["lastName"], email |-> b["email"],
                     department |-> b["department"],
                     salary |-> b["salary"].num, userId |-> userId]
         IN [code |-> Success, table |-> table \cup {row},
             rows |-> <<Wire(row)>>]

\* Mutant of Matching: WHERE id=$6 alone, the owner not looked at.
MatchingAnyOwner(table, id, userId) ==
    {r \in table : r.id = id}

\* The rows WHERE id=$6 AND userid=$7 (id is the primary key: at most one).
Matching(table, id, userId) ==
    {r \in table : r.id = id /\ r.userId = userId}

\* Mutant of UpdateEmployee: the index checked against the table with the
\* row's old version still in it, so a row conflicts with itself.
UpdateEmployeeSelfConflict(table, id, b, userId) ==
    IF ~IntegerText(b["salary"])
    THEN [code |-> InvalidTextRepresentation, table |-> table, rows |-> <<>>]
    ELSE IF Matching(table, id, userId) = {}
    THEN [code |-> Success, table |-> table, rows |-> <<>>]
    ELSE LET old == CHOOSE r \in Matching(table, id, userId) : TRUE
             new == [old EXCEPT !.firstName = b["firstName"],
                                !.lastName = b["lastName"],
                                !.email = b["email"],
                                !.department = b["department"],
                                !.salary = b["salary"].num]
         IN IF EmailTaken(table, userId, b["email"])
            THEN [code |-> UniqueViolationCode, table |-> table, rows |-> <<>>]
            ELSE [code |-> Success, table |-> (table \ {old}) \cup {new},
                  rows |-> <<Wire(new)>>]

\* UPDATE employees SET ... WHERE id=$6 AND userid=$7 RETURNING ...
UpdateEmployee(table, id, b, userId) ==
    IF ~IntegerText(b["salary"])
    THEN [code |-> InvalidTextRepresentation, table |-> table, rows |-> <<>>]
    ELSE IF Matching(table, id, userId) = {}
    THEN [code |-> Success, table |-> table, rows |-> <<>>]
    ELSE LET old == CHOOSE r \in Matching(table, id, userId) : TRUE
             new == [old EXCEPT !.firstName = b["firstName"],
                                !.lastName = b["lastName"],
                                !.email = b["email"],
                                !.department = b["department"],
                                !.salary = b["salary"].num]
         IN IF EmailTaken(table \ {old}, userId, b["email"])
            THEN [code |-> UniqueViolationCode, table |-> table, rows |-> <<>>]
            ELSE [code |-> Success, table |-> (table \ {old}) \cup {new},
                  rows |-> <<Wire(new)>>]

\* Mutant of DeleteEmployee: WHERE userid=$2 alone, every row of the caller.
DeleteEmployeeAllOfUser(table, id, userId) ==
    [code |-> Success, table |-> {r \in table : r.userId # userId},
     rowCount |-> Cardinality({r \in table : r.userId = userId})]

\* DELETE FROM employees WHERE id=$1 AND userid=$2
DeleteEmployee(table, id, userId) ==
    [code |-> Success, table |-> table \ Matching(table, id, userId),
     rowCount |-> Cardinality(Matching(table, id, userId))]

\* Code points of the characters in use, for the store's text ordering.
CharCode(c) ==
    CASE c = "A" -> 65 [] c = "B" -> 66 [] c = "C" -> 67 [] c = "D" -> 68
      [] c = "J" -> 74 [] c = "a" -> 97 [] c = "b" -> 98
      [] c = "\n" -> 10 [] c = " " -> 32 [] c = "E" -> 69 [] c = "K" -> 75
      [] c = "c" -> 99 [] c = "d" -> 100 [] c = "e" -> 101 [] c = "j" -> 106
      [] c = "k" -> 107 [] OTHER -> 0

RECURSIVE TextLess(_, _)
TextLess(s, t) ==
    IF t = <<>> THEN FALSE
    ELSE IF s = <<>> THEN TRUE
    ELSE IF CharCode(Head(s)) # CharCode(Head(t))
    THEN CharCode(Head(s)) < CharCode(Head(t))
    ELSE TextLess(Tail(s), Tail(t))

\* r1 may stand before r2 under ORDER BY lastname, firstname.
OrderedBefore(r1, r2) ==
    \/ TextLess(r1.lastName, r2.lastName)
    \/ r1.lastName = r2.lastName /\ ~TextLess(r2.firstName, r1.firstName)

\* SELECT ... FROM employees WHERE userid=$1 ORDER BY lastname, firstname:
\* every result the store may return (rows equal under the order come in
\* any order).
SelectEmployees(table, userId) ==
    LET mine == {Wire(r) : r \in {x \in table : x.userId = userId}}
        n == Cardinality(mine)
    IN {s \in [1..n -> mine] :
          /\ \A i, j \in 1..n : i # j => s[i] # s[j]
          /\ \A i, j \in 1..n : i < j => OrderedBefore(s[i], s[j])}

(***************************************************************************)
(* Requests and responses.                                                 *)
(***************************************************************************)
\* getUserIdFromCookie returns null when no part of the header is uid=...
Null == "<null>"
\* No uid cookie in the jar.
NoCookie == ""
\* A response without a Set-Cookie header.
NoSetCookie == "<none>"

NoReq == [route |-> "none"]
NoRes == [status |-> 0, body |-> <<>>, setCookie |-> NoSetCookie]

Response(status) == [status |-> status, body |-> <<>>, setCookie |-> NoSetCookie]
ResponseWith(status, body) ==
    [status |-> status, body |-> body, setCookie |-> NoSetCookie]

\* decodeURIComponent on the cookie values in use.
decodeURIComponent(v) ==
    CASE v = "i%31" -> "i1"
      [] OTHER -> v

\* The first part of the Cookie header that starts with uid=, decoded.
getUserIdFromCookie(cookieHeader) ==
    LET uid == {i \in DOMAIN cookieHeader : cookieHeader[i].name = "uid"}
    IN IF uid = {} THEN Null
       ELSE decodeURIComponent(
              cookieHeader[CHOOSE i \in uid : \A j \in uid : i <= j].value)

\* authRequired lets the request through, with req.userId set.
Authorized(cookieHeader) ==
    /\ getUserIdFromCookie(cookieHeader) # Null
    /\ getUserIdFromCookie(cookieHeader) # ""

\* Mutant of InvalidEmployee: department is not looked at.
InvalidEmployeeNoDepartment(body) ==
    \/ Falsy(body, "firstName")
    \/ Falsy(body, "lastName")
    \/ Falsy(body, "email")
    \/ ~IsNumber(body)

\* The validation of POST and PUT /api/employees: the body is rejected.
InvalidEmployee(body) ==
    \/ Falsy(body, "firstName")
    \/ Falsy(body, "lastName")
    \/ Falsy(body, "email")
    \/ Falsy(body, "department")
    \/ ~IsNumber(body)

\* The handler of h, serving request q, writes its response and ends.
Respond(h, q, r) ==
    /\ pc' = [pc EXCEPT ![h] = "done"]
    /\ req' = [req EXCEPT ![h] = q]
    /\ res' = [res EXCEPT ![h] = r]
    /\ UNCHANGED pageVars

\* The handler of h awaits the store statement of request q.
Await(h, q) ==
    /\ pc' = [pc EXCEPT ![h] = "query"]
    /\ req' = [req EXCEPT ![h] = q]
    /\ UNCHANGED <<res, pageVars>>

\* A request turned away before any store statement: its route and caller.
Refused(route, cookieHeader) ==
    [route |-> route, userId |-> getUserIdFromCookie(cookieHeader)]

(***************************************************************************)
(* The inputs requests are drawn from.                                     *)
(***************************************************************************)
Cookie(v) == <<[name |-> "uid", value |-> v]>>

\* Cookie headers a client may send: none, an emptied uid, a user id plain
\* or percent-encoded, and a uid behind another cookie.
CookieHeaders ==
    {<<>>, Cookie(""), Cookie("i1"), Cookie("i2"), Cookie("i%31"),
     <<[name |-> "theme", value |-> "i1"]>> \o Cookie("i2")}

Body(e, sal) ==
    [firstName |-> Jane, lastName |-> Doe, email |-> e, department |-> CSE,
     salary |-> sal]

Without(b, f) == [x \in DOMAIN b \ {f} |-> b[x]]
Emptied(b, f) == [b EXCEPT ![f] = <<>>]

\* Bodies that pass the handlers' validation.
AcceptedBodies ==
    {Body(<<"a">>, Num(0)), Body(<<"A">>, Num(0)), Body(<<"b">>, Num(-1)),
     Body(<<"b">>, Frac(3, 2))}

\* Bodies with one field missing or empty, or a salary that is no number.
RejectedBodies ==
    {Without(Body(<<"a">>, Num(0)), f) :
        f \in {"firstName", "lastName", "email", "department", "salary"}}
        \cup {Emptied(Body(<<"a">>, Num(0)), f) :
                f \in {"firstName", "lastName", "email", "department"}}
        \cup {Body(<<"a">>, NumericString)}

EmployeeBodies == AcceptedBodies \cup RejectedBodies

\* The bodies sent with a cookie header: the caller i1 sends every body, any
\* other caller a rejected body or the one employee a@, which i1 may hold too.
BodiesWith(cookieHeader) ==
    IF getUserIdFromCookie(cookieHeader) = "i1"
    THEN EmployeeBodies
    ELSE RejectedBodies \cup {Body(<<"a">>, Num(0))}

(***************************************************************************)
(* The employee endpoints, each behind authRequired.                       *)
(***************************************************************************)
\* GET /api/employees arrives at handler h.
ListRequest(h, cookieHeader) ==
    /\ pc[h] = "idle"
    /\ IF ~Authorized(cookieHeader)
       THEN Respond(h, Refused("GET /api/employees", cookieHeader),
                    Response(401))
       ELSE Await(h, [route |-> "GET /api/employees",
                      userId |-> getUserIdFromCookie(cookieHeader)])
    /\ UNCHANGED <<users, employees, jar>>

\* The store runs the SELECT of handler h, which answers with the rows.
ListQuery(h) ==
    /\ pc[h] = "query"
    /\ req[h].route = "GET /api/employees"
    /\ \E rows \in SelectEmployees(employees, req[h].userId) :
          Respond(h, req[h], ResponseWith(200, rows))
    /\ UNCHANGED <<users, employees, jar>>

\* POST /api/employees arrives at handler h.
CreateRequest(h, cookieHeader, body) ==
    /\ pc[h] = "idle"
    /\ LET q == [route |-> "POST /api/employees",
                 userId |-> getUserIdFromCookie(cookieHeader),
                 body |-> body]
       IN IF ~Authorized(cookieHeader)
          THEN Respond(h, Refused("POST /api/employees", cookieHeader),
                       Response(401))
          ELSE IF InvalidEmployee(body)
          THEN Respond(h, Refused("POST /api/employees", cookieHeader),
                       Response(400))
          ELSE Await(h, q)
    /\ UNCHANGED <<users, employees, jar>>

\* The status POST /api/employees answers an INSERT's outcome with.
CreateStatus(code) ==
    IF code = Success THEN 201
    ELSE IF code = UniqueViolationCode THEN 409
    ELSE 500

\* The store runs the INSERT of handler h.  The id generateId() returned
\* when the request arrived is first looked at by this statement, so it is
\* drawn here.
CreateQuery(h) ==
    /\ pc[h] = "query"
    /\ req[h].route = "POST /api/employees"
    /\ \E id \in Ids :
          LET r == InsertEmployee(employees, id, req[h].body, req[h].userId)
          IN /\ employees' = r.table
             /\ Respond(h, req[h], ResponseWith(CreateStatus(r.code), r.rows))
    /\ UNCHANGED <<users, jar>>

\* PUT /api/employees/:id arrives at handler h.
UpdateRequest(h, cookieHeader, id, body) ==
    /\ pc[h] = "idle"
    /\ LET q == [route |-> "PUT /api/employees/:id",
                 userId |-> getUserIdFromCookie(cookieHeader),
                 id |-> id, body |-> body]
       IN IF ~Authorized(cookieHeader)
          THEN Respond(h, Refused("PUT /api/employees/:id", cookieHeader),
                       Response(401))
          ELSE IF InvalidEmployee(body)
          THEN Respond(h, Refused("PUT /api/employees/:id", cookieHeader),
                       Response(400))
          ELSE Await(h, q)
    /\ UNCHANGED <<users, employees, jar>>

\* The status PUT /api/employees/:id answers an UPDATE's outcome with.
UpdateStatus(r) ==
    IF r.code = Success THEN (IF Len(r.rows) = 0 THEN 404 ELSE 200)
    ELSE IF r.code = UniqueViolationCode THEN 409
    ELSE 500

\* The store runs the UPDATE of handler h.
UpdateQuery(h) ==
    /\ pc[h] = "query"
    /\ req[h].route = "PUT /api/employees/:id"
    /\ LET r == UpdateEmployee(employees, req[h].id, req[h].body, req[h].userId)
       IN /\ employees' = r.table
          /\ Respond(h, req[h], ResponseWith(UpdateStatus(r), r.rows))
    /\ UNCHANGED <<users, jar>>

\* DELETE /api/employees/:id arrives at handler h.
DeleteRequest(h, cookieHeader, id) ==
    /\ pc[h] = "idle"
    /\ IF ~Authorized(cookieHeader)
       THEN Respond(h, Refused("DELETE /api/employees/:id", cookieHeader),
                    Response(401))
       ELSE Await(h, [route |-> "DELETE /api/employees/:id",
                      userId |-> getUserIdFromCookie(cookieHeader),
                      id |-> id])
    /\ UNCHANGED <<users, employees, jar>>

\* The store runs the DELETE of handler h.
DeleteQuery(h) ==
    /\ pc[h] = "query"
    /\ req[h].route = "DELETE /api/employees/:id"
    /\ LET r == DeleteEmployee(employees, req[h].id, req[h].userId)
       IN /\ employees' = r.table
          /\ Respond(h, req[h], Response(IF r.rowCount = 0 THEN 404 ELSE 204))
    /\ UNCHANGED <<users, jar>>

\* The response of handler h reaches its client; a Set-Cookie header in it
\* rewrites the browser's jar (an empty value with Max-Age=0 removes uid).
Deliver(h) ==
    /\ pc[h] = "done"
    /\ jar' = IF res[h].setCookie = NoSetCookie THEN jar ELSE res[h].setCookie
    /\ pc' = [pc EXCEPT ![h] = "idle"]
    /\ req' = [req EXCEPT ![h] = NoReq]
    /\ res' = [res EXCEPT ![h] = NoRes]
    /\ UNCHANGED <<users, employees, pageVars>>

(***************************************************************************)
(* The users table and the authentication endpoints.                       *)
(***************************************************************************)
\* Registration refuses passwords shorter than this.
MinPasswordLength == 6

Ann == <<"N">>
Secret == <<"s", "e", "c", "r", "e", "t">>
Wrong == <<"S", "e", "c", "r", "e", "t">>
Short == <<"s", "e", "c">>

\* bcrypt.hash and bcrypt.compare: a stored hash matches its password only.
Hash(password) == <<"$">> \o password
Compare(password, hashed) == hashed = Hash(password)

\* encodeURIComponent on the ids in use: base-36 digits are left as they
\* are, a percent sign is escaped.
encodeURIComponent(v) ==
    CASE v = "i%31" -> "i%2531"
      [] OTHER -> v

\* The columns of a users row that the API returns.
UserWire(u) == [id |-> u.id, name |-> u.name, email |-> u.email]

\* SELECT ... FROM users WHERE email = $1 (an exact, case-sensitive match).
SelectUserByEmail(table, email) == {u \in table : u.email = email}

\* SELECT id, name, email FROM users WHERE id = $1.
SelectUserById(table, id) == {u \in table : u.id = id}

\* INSERT INTO users: id is the primary key, email is UNIQUE.
InsertUser(table, id, b) ==
    IF \E u \in table : u.id = id \/ u.email = b["email"]
    THEN [code |-> UniqueViolationCode, table |-> table, rows |-> <<>>]
    ELSE LET u == [id |-> id, name |-> b["name"], email |-> b["email"],
                   password |-> Hash(b["password"])]
         IN [code |-> Success, table |-> table \cup {u},
             rows |-> <<UserWire(u)>>]

\* The validation of POST /api/auth/register: the body is rejected.
InvalidRegistration(body) ==
    \/ Falsy(body, "name") \/ Falsy(body, "email") \/ Falsy(body, "password")
    \/ Len(body["password"]) < MinPasswordLength

\* The validation of POST /api/auth/login: the body is rejected.
InvalidLogin(body) == Falsy(body, "email") \/ Falsy(body, "password")

\* The Set-Cookie value of a login: uid=<the user's id, encoded>.
SessionCookie(u) == encodeURIComponent(u.id)

\* Mutant of LogoutResponse: no Set-Cookie header is sent.
LogoutResponseKeepingCookie == Response(204)

\* The answer of POST /api/auth/logout: uid= with Max-Age=0.
LogoutResponse == [status |-> 204, body |-> <<>>, setCookie |-> NoCookie]

\* The Cookie header the browser sends: its jar's uid cookie, if any.
BrowserHeader == IF jar = NoCookie THEN <<>> ELSE Cookie(jar)

RegisterBody(e, p) == [name |-> Ann, email |-> e, password |-> p]
LoginBody(e, p) == [email |-> e, password |-> p]

RegisterBodies ==
    {RegisterBody(<<"a">>, Secret), RegisterBody(<<"b">>, Secret),
     RegisterBody(<<"a">>, Short), Without(RegisterBody(<<"a">>, Secret), "name")}

LoginBodies ==
    {LoginBody(<<"a">>, Secret), LoginBody(<<"b">>, Secret),
     LoginBody(<<"a">>, Wrong), Without(LoginBody(<<"a">>, Secret), "password")}

\* POST /api/auth/register arrives at handler h.
RegisterRequest(h, body) ==
    /\ pc[h] = "idle"
    /\ IF InvalidRegistration(body)
       THEN Respond(h, [route |-> "POST /api/auth/register"], Response(400))
       ELSE Await(h, [route |-> "POST /api/auth/register", body |-> body])
    /\ UNCHANGED <<users, employees, jar>>

\* The store runs the SELECT of the register handler h: a row with the email
\* is answered 409; otherwise the handler hashes the password, takes the id
\* generateId() returns and awaits its INSERT.
RegisterSelect(h) ==
    /\ pc[h] = "query"
    /\ req[h].route = "POST /api/auth/register"
    /\ IF SelectUserByEmail(users, req[h].body["email"]) # {}
       THEN Respond(h, req[h], Response(409))
       ELSE \E id \in Ids :
               /\ pc' = [pc EXCEPT ![h] = "insert"]
               /\ req' = [req EXCEPT ![h] =
                            [route |-> "POST /api/auth/register",
                             body |-> req[h].body, id |-> id]]
               /\ UNCHANGED <<res, pageVars>>
    /\ UNCHANGED <<users, employees, jar>>

\* The store runs the INSERT of the register handler h; any error of the
\* store is caught and answered 500.
RegisterInsert(h) ==
    /\ pc[h] = "insert"
    /\ LET r == InsertUser(users, req[h].id, req[h].body)
       IN /\ users' = r.table
          /\ Respond(h, req[h],
                     ResponseWith(IF r.code = Success THEN 201 ELSE 500, r.rows))
    /\ UNCHANGED <<employees, jar>>

\* POST /api/auth/login arrives at handler h.
LoginRequest(h, body) ==
    /\ pc[h] = "idle"
    /\ IF InvalidLogin(body)
       THEN Respond(h, [route |-> "POST /api/auth/login"], Response(400))
       ELSE Await(h, [route |-> "POST /api/auth/login", body |-> body])
    /\ UNCHANGED <<users, employees, jar>>

\* The store runs the SELECT of the login handler h, which compares the
\* password with the row's hash and on a match sets the session cookie.
LoginQuery(h) ==
    /\ pc[h] = "query"
    /\ req[h].route = "POST /api/auth/login"
    /\ LET rows == SelectUserByEmail(users, req[h].body["email"])
       IN IF rows = {}
          THEN Respond(h, req[h], Response(401))
          ELSE \E user \in rows :
                  IF ~Compare(req[h].body["password"], user.password)
                  THEN Respond(h, req[h], Response(401))
                  ELSE Respond(h, req[h],
                               [status |-> 200, body |-> <<UserWire(user)>>,
                                setCookie |-> SessionCookie(user)])
    /\ UNCHANGED <<users, employees, jar>>

\* GET /api/auth/me arrives at handler h.
MeRequest(h, cookieHeader) ==
    /\ pc[h] = "idle"
    /\ IF ~Authorized(cookieHeader)
       THEN Respond(h, Refused("GET /api/auth/me", cookieHeader), Response(401))
       ELSE Await(h, [route |-> "GET /api/auth/me",
                      userId |-> getUserIdFromCookie(cookieHeader)])
    /\ UNCHANGED <<users, employees, jar>>

\* The store runs the SELECT of the me handler h.
MeQuery(h) ==
    /\ pc[h] = "query"
    /\ req[h].route = "GET /api/auth/me"
    /\ LET rows == SelectUserById(users, req[h].userId)
       IN IF rows = {}
          THEN Respond(h, req[h], Response(401))
          ELSE \E user \in rows :
                  Respond(h, req[h], ResponseWith(200, <<UserWire(user)>>))
    /\ UNCHANGED <<users, employees, jar>>

\* POST /api/auth/logout is answered at once, whatever cookie it carries.
LogoutRequest(h) ==
    /\ pc[h] = "idle"
    /\ Respond(h, [route |-> "POST /api/auth/logout"], LogoutResponse)
    /\ UNCHANGED <<users, employees, jar>>

(***************************************************************************)
(* The page (src/public/app.js): its state when the script starts, and the *)
(* view pipeline filter -> sort -> paginate -> render.                     *)
(***************************************************************************)
\* let rowsPerPage = 10
InitialRowsPerPage == 10

\* The value of the department filter that lets every department through.
All == <<"a", "l", "l">>

\* No file has been offered for download.
NoDownload == <<"<none>">>

\* The module-level variables as declared, the inputs as the form starts.
PageStart ==
    /\ cache = <<>>
    /\ filteredEmployees = <<>>
    /\ currentPage = 1
    /\ rowsPerPage = InitialRowsPerPage
    /\ sortField = "name"
    /\ sortDirection = "asc"
    /\ searchInput = <<>>
    /\ filterDepartment = All
    /\ tableBody = <<>>
    /\ listening = FALSE
    /\ download = NoDownload

\* `${emp.firstName} ${emp.lastName}`
FullName(emp) == emp.firstName \o <<" ">> \o emp.lastName

\* String.prototype.includes
Includes(s, t) ==
    \E i \in 0..(Len(s) - Len(t)) : SubSeq(s, i + 1, i + Len(t)) = t

\* The predicate of the filter in applyFilters.
MatchesFilters(emp, searchValue, selectedDept) ==
    LET searchQuery == Lower(searchValue)
        matchesSearch ==
            \/ searchQuery = <<>>
            \/ Includes(Lower(FullName(emp)), searchQuery)
            \/ Includes(Lower(emp.email), searchQuery)
            \/ Includes(Lower(emp.department), searchQuery)
        matchesDept == selectedDept = All \/ emp.department = selectedDept
    IN matchesSearch /\ matchesDept

\* employees.filter(...) of applyFilters: the matching records, in the
\* order of the array.
FilterEmployees(emps, searchValue, selectedDept) ==
    SelectSeq(emps, LAMBDA emp : MatchesFilters(emp, searchValue, selectedDept))

\* aValue < bValue in the comparator of sortEmployees.
ValueLess(a, b, field) ==
    IF field = "name" THEN TextLess(Lower(FullName(a)), Lower(FullName(b)))
    ELSE IF field = "salary" THEN a.salary < b.salary
    ELSE TextLess(Lower(a[field]), Lower(b[field]))

\* The comparator without its direction: always ascending.
comparatorAscending(a, b, field, direction) ==
    IF ValueLess(a, b, field) THEN -1
    ELSE IF ValueLess(b, a, field) THEN 1
    ELSE 0

\* The comparator of sortEmployees.
comparator(a, b, field, direction) ==
    IF ValueLess(a, b, field) THEN (IF direction = "asc" THEN -1 ELSE 1)
    ELSE IF ValueLess(b, a, field) THEN (IF direction = "asc" THEN 1 ELSE -1)
    ELSE 0

\* x placed into a sorted array behind every element it does not precede.
InsertSorted(sorted, x, field, direction) ==
    LET before == {i \in DOMAIN sorted :
                     comparator(x, sorted[i], field, direction) < 0}
        at == IF before = {} THEN Len(sorted) + 1
              ELSE CHOOSE i \in before : \A j \in before : i <= j
    IN SubSeq(sorted, 1, at - 1) \o <<x>> \o SubSeq(sorted, at, Len(sorted))

\* Array.prototype.sort with the comparator of sortEmployees: a stable sort
\* (elements that compare equal keep the order the array had).
RECURSIVE sortEmployees(_, _, _)
sortEmployees(emps, field, direction) ==
    IF emps = <<>> THEN <<>>
    ELSE InsertSorted(sortEmployees(SubSeq(emps, 1, Len(emps) - 1),
                                    field, direction),
                      emps[Len(emps)], field, direction)

\* Math.ceil(n / size)
CeilDiv(n, size) == (n + size - 1) \div size

\* filteredEmployees.slice(start, end) of renderTable.
PageRows(filtered, page, size) ==
    LET start == (page - 1) * size
        end == start + size
    IN SubSeq(filtered, start + 1, IF end < Len(filtered) THEN end
                                   ELSE Len(filtered))

(***************************************************************************)
(* The employee API under requests from any client.                        *)
(***************************************************************************)
Init ==
    /\ users = {}
    /\ employees = {}
    /\ jar = NoCookie
    /\ pc = [h \in Handlers |-> "idle"]
    /\ req = [h \in Handlers |-> NoReq]
    /\ res = [h \in Handlers |-> NoRes]
    /\ PageStart

Next ==
    \E h \in Handlers :
        \/ \E c \in CookieHeaders : ListRequest(h, c)
        \/ ListQuery(h)
        \/ \E c \in CookieHeaders : \E b \in BodiesWith(c) :
              CreateRequest(h, c, b)
        \/ CreateQuery(h)
        \/ \E c \in CookieHeaders, id \in Ids : \E b \in BodiesWith(c) :
              UpdateRequest(h, c, id, b)
        \/ UpdateQuery(h)
        \/ \E c \in CookieHeaders, id \in Ids : DeleteRequest(h, c, id)
        \/ DeleteQuery(h)
        \/ Deliver(h)

Spec == Init /\ [][Next]_vars

(***************************************************************************)
(* One browser using the whole API: it registers, logs in and out, and     *)
(* sends every other request with the cookie its jar holds.                *)
(***************************************************************************)
NextAuth ==
    \E h \in Handlers :
        \/ \E b \in RegisterBodies : RegisterRequest(h, b)
        \/ RegisterSelect(h)
        \/ RegisterInsert(h)
        \/ \E b \in LoginBodies : LoginRequest(h, b)
        \/ LoginQuery(h)
        \/ MeRequest(h, BrowserHeader)
        \/ MeQuery(h)
        \/ LogoutRequest(h)
        \/ ListRequest(h, BrowserHeader)
        \/ ListQuery(h)
        \/ CreateRequest(h, BrowserHeader, Body(<<"a">>, Num(0)))
        \/ CreateQuery(h)
        \/ Deliver(h)

SpecAuth == Init /\ [][NextAuth]_vars

(***************************************************************************)
(* The page's handlers.  A fetch of the page occupies a request handler of *)
(* the server from the arrival of the request to the handling of its       *)
(* response; the request carries the cookie of the browser's jar.          *)
(***************************************************************************)
\* response.ok
Ok(r) == r.status >= 200 /\ r.status <= 299

\* JSON.stringify(formData): parseInt gives an integer or NaN, and NaN is
\* written as null.
NaN == [type |-> "null", num |-> 0, den |-> 1]

\* What the forms are filled with: two employees whose emails differ by
\* letter case only, and a form whose salary field is left empty.
FormData ==
    {[firstName |-> <<"J">>, lastName |-> Doe, email |-> <<"a">>,
      department |-> <<"C">>, salary |-> Num(0)],
     [firstName |-> <<"K">>, lastName |-> Doe, email |-> <<"A">>,
      department |-> <<"E">>, salary |-> Num(1)],
     [firstName |-> <<"J">>, lastName |-> Doe, email |-> <<"a">>,
      department |-> <<"C">>, salary |-> NaN]}

\* The end of a fetch: the handler is free again, a Set-Cookie is applied.
Settle(h) ==
    /\ pc[h] = "done"
    /\ jar' = IF res[h].setCookie = NoSetCookie THEN jar ELSE res[h].setCookie
    /\ pc' = [pc EXCEPT ![h] = "idle"]
    /\ req' = [req EXCEPT ![h] = NoReq]
    /\ res' = [res EXCEPT ![h] = NoRes]
    /\ UNCHANGED <<users, employees>>

\* applyFilters() once the array is emps, the inputs read searchValue and
\* selectedDept and the page is page: filter, sortEmployees, renderTable.
applyFilters(emps, searchValue, selectedDept, page) ==
    LET filtered == sortEmployees(FilterEmployees(emps, searchValue, selectedDept),
                                  sortField, sortDirection)
    IN /\ cache' = emps
       /\ searchInput' = searchValue
       /\ filterDepartment' = selectedDept
       /\ currentPage' = page
       /\ filteredEmployees' = filtered
       /\ tableBody' = PageRows(filtered, page, rowsPerPage)
       /\ UNCHANGED <<rowsPerPage, sortField, sortDirection, download>>

\* employees.findIndex(emp => emp.id === id), 0 standing for -1.
FindIndex(emps, id) ==
    LET at == {i \in DOMAIN emps : emps[i].id = id}
    IN IF at = {} THEN 0 ELSE CHOOSE i \in at : \A j \in at : i <= j

\* Mutant of AddedTo: the record returned is not pushed.
AddedNothing(emps, r) == emps

\* addEmployee on its response r: the new record is pushed when r is ok.
AddedTo(emps, r) == IF Ok(r) THEN Append(emps, r.body[1]) ELSE emps

\* Mutant of Replaced: the record returned is not written to the array.
ReplacedNever(emps, r, id) == emps

\* updateEmployee(id, ...) on its response r: when r is ok and the array has
\* a record with the id, the record returned takes its place.
Replaced(emps, r, id) ==
    IF Ok(r) /\ FindIndex(emps, id) # 0
    THEN [emps EXCEPT ![FindIndex(emps, id)] = r.body[1]]
    ELSE emps

\* Mutant of Removed: the record is dropped before the response is looked at.
RemovedAnyway(emps, r, id) == SelectSeq(emps, LAMBDA emp : emp.id # id)

\* deleteEmployee(id) on its response r: the record is dropped when r is ok.
Removed(emps, r, id) ==
    IF Ok(r) THEN SelectSeq(emps, LAMBDA emp : emp.id # id) ELSE emps

\* loadEmployees() sends GET /api/employees; the listeners are set up after
\* it has ended.
loadEmployees(h) ==
    /\ ~listening
    /\ \A g \in Handlers : pc[g] = "idle"
    /\ ListRequest(h, BrowserHeader)

\* loadEmployees on its response: the array becomes the rows returned.
LoadResponse(h) ==
    /\ req[h].route = "GET /api/employees"
    /\ Settle(h)
    /\ listening' = TRUE
    /\ IF Ok(res[h])
       THEN applyFilters(res[h].body, searchInput, filterDepartment, currentPage)
       ELSE UNCHANGED <<cache, viewVars>>

\* handleAddEmployee with the form holding formData: refused by the page
\* when the array has the email (case-insensitive), else addEmployee sends
\* POST /api/employees.
handleAddEmployee(h, formData) ==
    /\ listening
    /\ ~\E i \in DOMAIN cache : Lower(cache[i].email) = Lower(formData.email)
    /\ CreateRequest(h, BrowserHeader, formData)

\* addEmployee on its response.
AddResponse(h) ==
    /\ req[h].route = "POST /api/employees"
    /\ Settle(h)
    /\ UNCHANGED listening
    /\ IF Ok(res[h])
       THEN applyFilters(AddedTo(cache, res[h]), searchInput, filterDepartment,
                         currentPage)
       ELSE cache' = AddedTo(cache, res[h]) /\ UNCHANGED viewVars

\* handleEditEmployee: the modal opened on a rendered row is submitted
\* holding formData, and updateEmployee sends PUT /api/employees/:id.
handleEditEmployee(h, id, formData) ==
    /\ listening
    /\ \E i \in DOMAIN tableBody : tableBody[i].id = id
    /\ UpdateRequest(h, BrowserHeader, id, formData)

\* updateEmployee on its response.
UpdateResponse(h) ==
    /\ req[h].route = "PUT /api/employees/:id"
    /\ Settle(h)
    /\ UNCHANGED listening
    /\ IF Ok(res[h]) /\ FindIndex(cache, req[h].id) # 0
       THEN applyFilters(Replaced(cache, res[h], req[h].id), searchInput,
                         filterDepartment, currentPage)
       ELSE cache' = Replaced(cache, res[h], req[h].id) /\ UNCHANGED viewVars

\* deleteEmployee(id) from the button of a rendered row, confirmed: sends
\* DELETE /api/employees/:id when the array has the id.
deleteEmployee(h, id) ==
    /\ listening
    /\ \E i \in DOMAIN tableBody : tableBody[i].id = id
    /\ FindIndex(cache, id) # 0
    /\ DeleteRequest(h, BrowserHeader, id)

\* deleteEmployee on its response.
DeleteResponse(h) ==
    /\ req[h].route = "DELETE /api/employees/:id"
    /\ Settle(h)
    /\ UNCHANGED listening
    /\ IF Ok(res[h])
       THEN applyFilters(Removed(cache, res[h], req[h].id), searchInput,
                         filterDepartment, currentPage)
       ELSE cache' = Removed(cache, res[h], req[h].id) /\ UNCHANGED viewVars

\* The response of handler h is lost in transit: fetch rejects and the
\* catch block of the caller shows a toast.
FetchFailed(h) ==
    /\ Settle(h)
    /\ listening' = TRUE
    /\ UNCHANGED <<cache, viewVars>>

(***************************************************************************)
(* The page of a logged-in user, with up to two fetches in flight.         *)
(***************************************************************************)
\* The user whose session the browser holds.
SessionUser ==
    [id |-> "i1", name |-> Ann, email |-> <<"a">>, password |-> Hash(Secret)]

\* A row the user stored earlier through the API, with a line break in its
\* first name.
StoredBefore ==
    [id |-> "i2", firstName |-> <<"K", "\n">>, lastName |-> Doe,
     email |-> <<"c">>, department |-> <<"C">>, salary |-> 0,
     userId |-> SessionUser.id]

\* checkAuthAndInit has had its 200 from GET /api/auth/me and is about to
\* call loadEmployees.
InitPage ==
    /\ users = {SessionUser}
    /\ employees \in {{}, {StoredBefore}}
    /\ jar = SessionCookie(SessionUser)
    /\ pc = [h \in Handlers |-> "idle"]
    /\ req = [h \in Handlers |-> NoReq]
    /\ res = [h \in Handlers |-> NoRes]
    /\ PageStart

NextPage ==
    \E h \in Handlers :
        \/ loadEmployees(h)
        \/ ListQuery(h)
        \/ LoadResponse(h)
        \/ \E formData \in FormData : handleAddEmployee(h, formData)
        \/ CreateQuery(h)
        \/ AddResponse(h)
        \/ \E id \in Ids, formData \in FormData :
              handleEditEmployee(h, id, formData)
        \/ UpdateQuery(h)
        \/ UpdateResponse(h)
        \/ \E id \in Ids : deleteEmployee(h, id)
        \/ DeleteQuery(h)
        \/ DeleteResponse(h)
        \/ FetchFailed(h)

SpecPage == InitPage /\ [][NextPage]_vars

(***************************************************************************)
(* The same page used one action at a time over a network that delivers    *)
(* every response: an action starts only when no fetch is in flight.       *)
(***************************************************************************)
NoFetch == \A g \in Handlers : pc[g] = "idle"

NextSession ==
    \E h \in Handlers :
        \/ loadEmployees(h)
        \/ ListQuery(h)
        \/ LoadResponse(h)
        \/ NoFetch /\ \E formData \in FormData : handleAddEmployee(h, formData)
        \/ CreateQuery(h)
        \/ AddResponse(h)
        \/ NoFetch /\ \E id \in Ids, formData \in FormData :
                         handleEditEmployee(h, id, formData)
        \/ UpdateQuery(h)
        \/ UpdateResponse(h)
        \/ NoFetch /\ \E id \in Ids : deleteEmployee(h, id)
        \/ DeleteQuery(h)
        \/ DeleteResponse(h)

SpecSession == InitPage /\ [][NextSession]_vars

(***************************************************************************)
(* The page's view handlers and the CSV export.                            *)
(***************************************************************************)
\* What is typed into the search box, the departments the filter offers and
\* two of the page sizes the select offers (5/10/25/50).
SearchTexts == {<<>>, <<"K">>}
Departments == {All, <<"E">>}
PageSizes == {5, InitialRowsPerPage}
SortFields == {"name", "email", "department", "salary"}

\* handleSearch: the input event of the search box, now reading value.
handleSearch(value) ==
    /\ listening
    /\ value # searchInput
    /\ applyFilters(cache, value, filterDepartment, 1)
    /\ UNCHANGED <<serverVars, listening>>

\* handleFilter: the change event of the department filter.
handleFilter(value) ==
    /\ listening
    /\ value # filterDepartment
    /\ applyFilters(cache, searchInput, value, 1)
    /\ UNCHANGED <<serverVars, listening>>

\* handleSort(field): a click on a sortable header; the filtered array is
\* sorted in place and rendered.
handleSort(field) ==
    /\ listening
    /\ LET direction == IF sortField = field
                        THEN (IF sortDirection = "asc" THEN "desc" ELSE "asc")
                        ELSE "asc"
           sorted == sortEmployees(filteredEmployees, field, direction)
       IN /\ sortField' = field
          /\ sortDirection' = direction
          /\ filteredEmployees' = sorted
          /\ tableBody' = PageRows(sorted, currentPage, rowsPerPage)
    /\ UNCHANGED <<serverVars, listening, cache, currentPage, rowsPerPage,
                   searchInput, filterDepartment, download>>

\* handleRowsPerPageChange: the change event of the page-size select.
handleRowsPerPageChange(size) ==
    /\ listening
    /\ size # rowsPerPage
    /\ rowsPerPage' = size
    /\ currentPage' = 1
    /\ tableBody' = PageRows(filteredEmployees, 1, size)
    /\ UNCHANGED <<serverVars, listening, cache, filteredEmployees, sortField,
                   sortDirection, searchInput, filterDepartment, download>>

\* changePage(page): nothing happens for a page outside 1..totalPages.
changePage(page) ==
    /\ listening
    /\ IF page < 1 \/ page > CeilDiv(Len(filteredEmployees), rowsPerPage)
       THEN UNCHANGED vars
       ELSE /\ currentPage' = page
            /\ tableBody' = PageRows(filteredEmployees, page, rowsPerPage)
            /\ UNCHANGED <<serverVars, listening, cache, filteredEmployees,
                           rowsPerPage, sortField, sortDirection, searchInput,
                           filterDepartment, download>>

\* totalPages of updatePagination, and the buttons it disables.
TotalPages ==
    IF CeilDiv(Len(filteredEmployees), rowsPerPage) > 1
    THEN CeilDiv(Len(filteredEmployees), rowsPerPage) ELSE 1
PrevPageDisabled == currentPage = 1
NextPageDisabled == currentPage = TotalPages

\* Number.prototype.toString for an integer.
RECURSIVE DecimalText(_)
DecimalText(n) ==
    LET digits == <<"0", "1", "2", "3", "4", "5", "6", "7", "8", "9">>
    IN IF n < 0 THEN <<"-">> \o DecimalText(-n)
       ELSE IF n < 10 THEN <<digits[n + 1]>>
       ELSE DecimalText(n \div 10) \o <<digits[(n % 10) + 1]>>

\* Array.prototype.join for an array of strings.
RECURSIVE Join(_, _)
Join(parts, separator) ==
    IF parts = <<>> THEN <<>>
    ELSE IF Len(parts) = 1 THEN parts[1]
    ELSE parts[1] \o separator \o Join(Tail(parts), separator)

\* headers.join(',')
CsvHeader ==
    Join(<< <<"N", "a", "m", "e">>, <<"E", "m", "a", "i", "l">>,
            <<"D", "e", "p", "a", "r", "t", "m", "e", "n", "t">>,
            <<"S", "a", "l", "a", "r", "y", " ", "(", "₹", ")">> >>, <<",">>)

\* The cells of a record, each wrapped in double quotes, joined by commas.
CsvRow(emp) ==
    LET row == <<FullName(emp), emp.email, emp.department,
                 DecimalText(emp.salary)>>
    IN Join([i \in DOMAIN row |-> <<"\"">> \o row[i] \o <<"\"">>], <<",">>)

\* csvContent of exportToCSV.
csvContent(filtered) ==
    Join(<<CsvHeader>> \o [i \in DOMAIN filtered |-> CsvRow(filtered[i])],
         <<"\n">>)

\* exportToCSV: the file offered for download.
exportToCSV ==
    /\ listening
    /\ download' = csvContent(filteredEmployees)
    /\ UNCHANGED <<serverVars, listening, cache, filteredEmployees,
                   currentPage, rowsPerPage, sortField, sortDirection,
                   searchInput, filterDepartment, tableBody>>

(***************************************************************************)
(* The page used one action at a time, with its view handlers.             *)
(***************************************************************************)
NextView ==
    \/ \E h \in Handlers :
          \/ loadEmployees(h)
          \/ ListQuery(h)
          \/ LoadResponse(h)
          \/ NoFetch /\ \E formData \in FormData : handleAddEmployee(h, formData)
          \/ CreateQuery(h)
          \/ AddResponse(h)
          \/ NoFetch /\ \E id \in Ids, formData \in FormData :
                           handleEditEmployee(h, id, formData)
          \/ UpdateQuery(h)
          \/ UpdateResponse(h)
          \/ NoFetch /\ \E id \in Ids : deleteEmployee(h, id)
          \/ DeleteQuery(h)
          \/ DeleteResponse(h)
    \/ \E value \in SearchTexts : handleSearch(value)
    \/ \E value \in Departments : handleFilter(value)
    \/ \E field \in SortFields : handleSort(field)
    \/ \E size \in PageSizes : handleRowsPerPageChange(size)
    \/ exportToCSV

SpecView == InitPage /\ [][NextView]_vars

(***************************************************************************)
(* The page of a user with six stored rows, used to browse and to delete.  *)
(***************************************************************************)
\* Six rows the user stored earlier, no two alike in any column.
StoredRows ==
    LET ids == <<"s1", "s2", "s3", "s4", "s5", "s6">>
        firstNames == <<"J", "K", "c", "d", "e", "a">>
        emails == <<"c", "d", "e", "j", "k", "b">>
        departments == <<"C", "D", "E", "J", "K", "A">>
    IN {[id |-> ids[k], firstName |-> <<firstNames[k]>>, lastName |-> Doe,
         email |-> <<emails[k]>>, department |-> <<departments[k]>>,
         salary |-> k, userId |-> SessionUser.id] : k \in DOMAIN ids}

InitPaging ==
    /\ users = {SessionUser}
    /\ employees = StoredRows
    /\ jar = SessionCookie(SessionUser)
    /\ pc = [h \in Handlers |-> "idle"]
    /\ req = [h \in Handlers |-> NoReq]
    /\ res = [h \in Handlers |-> NoRes]
    /\ PageStart

NextPaging ==
    \/ \E h \in Handlers :
          \/ loadEmployees(h)
          \/ ListQuery(h)
          \/ LoadResponse(h)
          \/ NoFetch /\ \E id \in {row.id : row \in StoredRows} :
                           deleteEmployee(h, id)
          \/ DeleteQuery(h)
          \/ DeleteResponse(h)
    \/ \E value \in SearchTexts : handleSearch(value)
    \/ \E value \in Departments : handleFilter(value)
    \/ \E field \in SortFields : handleSort(field)
    \/ \E size \in PageSizes : handleRowsPerPageChange(size)
    \/ ~PrevPageDisabled /\ changePage(currentPage - 1)
    \/ ~NextPageDisabled /\ changePage(currentPage + 1)

SpecPaging == InitPaging /\ [][NextPaging]_vars

(***************************************************************************)
(* What a step did, for the properties below.                              *)
(***************************************************************************)
\* A request arrived at handler h in this step.
Arrived(h) == pc[h] = "idle" /\ pc'[h] # "idle"

\* The store ran the statement of handler h, serving route, in this step.
Ran(h, route) == pc[h] = "query" /\ req[h].route = route /\ pc'[h] = "done"

\* Handler h has answered a request that got as far as its store statement.
Served(h, route) ==
    pc[h] = "done" /\ req[h].route = route /\ res[h].status \notin {400, 401}

EmployeeRoutes ==
    {"GET /api/employees", "POST /api/employees", "PUT /api/employees/:id",
     "DELETE /api/employees/:id"}

\* The user id names a row of the users table.
Resolves(userId) == \E u \in users : u.id = userId

\* The row id exists and belongs to another user than userId.
Foreign(table, id, userId) == \E r \in table : r.id = id /\ r.userId # userId

\* An employee body as the specification asks for it: four non-empty
\* strings and a salary that is an integer >= 0.
ValidEmployee(b) ==
    /\ \A f \in {"firstName", "lastName", "email", "department"} :
          f \in DOMAIN b /\ b[f] # <<>>
    /\ "salary" \in DOMAIN b
    /\ b["salary"].type = "number" /\ b["salary"].den = 1 /\ b["salary"].num >= 0

(***************************************************************************)
(* C1: in every reachable state no two employee rows have the same owning  *)
(* user and the same lowercase email.                                      *)
(***************************************************************************)
C1_UniqueEmailPerOwner ==
    \A r1, r2 \in employees :
        (r1.userId = r2.userId /\ Lower(r1.email) = Lower(r2.email)) => r1 = r2

\* Two creates of one owner with emails differing by case only have both
\* been answered, one stored and one refused as a conflict.
C1_Witness ==
    \E g, h \in Handlers :
        /\ Served(g, "POST /api/employees") /\ Served(h, "POST /api/employees")
        /\ req[g].userId = req[h].userId
        /\ req[g].body["email"] # req[h].body["email"]
        /\ Lower(req[g].body["email"]) = Lower(req[h].body["email"])
        /\ res[g].status = 201 /\ res[h].status = 409
        /\ \E r \in employees :
              r.userId = req[g].userId /\ r.email = req[g].body["email"]

(***************************************************************************)
(* C3: an employee request whose cookie is missing, or holds an id that    *)
(* resolves to no user row, is answered 401 at once and neither reads nor  *)
(* changes the employees table (no store statement is issued for it).      *)
(***************************************************************************)
C3_UnresolvedCookieIs401 ==
    [][\A h \in Handlers :
          (/\ Arrived(h)
           /\ req'[h].route \in EmployeeRoutes
           /\ ~Resolves(req'[h].userId))
          => (pc'[h] = "done" /\ res'[h].status = 401
              /\ employees' = employees)]_vars

(***************************************************************************)
(* C4, as claimed: List by A returns exactly the rows A owns, and an       *)
(* Update or Delete by A naming a row owned by another user is answered    *)
(* 404 and leaves every row unchanged.                                     *)
(***************************************************************************)
C4_ListIsOwn(h) ==
    Ran(h, "GET /api/employees") =>
        LET own == {Wire(r) : r \in {x \in employees : x.userId = req[h].userId}}
            rows == res'[h].body
        IN /\ res'[h].status = 200
           /\ {rows[i] : i \in DOMAIN rows} = own
           /\ Len(rows) = Cardinality(own)

C4_DeleteOfForeign(h) ==
    (Ran(h, "DELETE /api/employees/:id")
        /\ Foreign(employees, req[h].id, req[h].userId))
    => (res'[h].status = 404 /\ employees' = employees)

C4_ForeignRowIs404 ==
    [][\A h \in Handlers :
          /\ C4_ListIsOwn(h)
          /\ C4_DeleteOfForeign(h)
          /\ (Ran(h, "PUT /api/employees/:id")
                /\ Foreign(employees, req[h].id, req[h].userId))
             => (res'[h].status = 404 /\ employees' = employees)
          /\ (Arrived(h) /\ pc'[h] = "done" /\ res'[h].status # 404)
             => \A c \in CookieHeaders, id \in Ids, b \in EmployeeBodies :
                   (Authorized(c) /\ Foreign(employees, id, getUserIdFromCookie(c)))
                   => ~UpdateRequest(h, c, id, b)]_vars

(***************************************************************************)
(* C4, amended: List by A returns exactly the rows A owns; a Delete by A   *)
(* naming a row owned by another user is answered 404; an Update by A      *)
(* naming such a row changes no row, whatever its body, and is answered    *)
(* 404 when its body passes validation and its salary is an integer.       *)
(***************************************************************************)
C4_OwnerIsolation ==
    [][\A h \in Handlers :
          /\ C4_ListIsOwn(h)
          /\ C4_DeleteOfForeign(h)
          /\ (Ran(h, "PUT /api/employees/:id")
                /\ Foreign(employees, req[h].id, req[h].userId))
             => /\ employees' = employees
                /\ IntegerText(req[h].body["salary"]) => res'[h].status = 404
          /\ Arrived(h) => employees' = employees]_vars

\* An Update by one user naming another user's row has been answered 404,
\* and that row is in the table.
C4_Witness ==
    \E h \in Handlers :
        /\ Served(h, "PUT /api/employees/:id")
        /\ res[h].status = 404
        /\ Foreign(employees, req[h].id, req[h].userId)
        /\ \E r \in employees : r.userId = req[h].userId

(***************************************************************************)
(* C5: every stored employee row has a salary that is an integer >= 0.     *)
(***************************************************************************)
C5_SalaryNonNegative ==
    \A r \in employees : r.salary \in Int /\ r.salary >= 0

(***************************************************************************)
(* C6: a Create or Update by an authenticated caller in which firstName,   *)
(* lastName, email or department is missing or empty, or salary is not a   *)
(* number, is answered 400 and leaves the store unchanged.                 *)
(***************************************************************************)
C6_Malformed(b) ==
    \/ \E f \in {"firstName", "lastName", "email", "department"} :
          f \notin DOMAIN b \/ b[f] = <<>>
    \/ "salary" \notin DOMAIN b
    \/ b["salary"].type # "number"

\* Stated on the step in which the request arrives: it changes no row; a
\* request that goes on to its store statement is not malformed; and one
\* answered at once is answered 400, or 401 when its caller has no cookie.
C6_MalformedIs400 ==
    [][\A h \in Handlers :
          (Arrived(h) /\ req'[h].route \in {"POST /api/employees",
                                            "PUT /api/employees/:id"})
          => /\ employees' = employees
             /\ pc'[h] = "query" => ~C6_Malformed(req'[h].body)
             /\ pc'[h] = "done" =>
                   \/ res'[h].status = 400
                   \/ res'[h].status = 401 /\ req'[h].userId \in {Null, ""}]_vars

\* An Update of a caller who holds rows has been answered 400.
C6_Witness ==
    \E h \in Handlers :
        /\ pc[h] = "done"
        /\ res[h].status = 400
        /\ req[h].route = "PUT /api/employees/:id"
        /\ \E r \in employees : r.userId = req[h].userId

(***************************************************************************)
(* C7: a valid Update of a row the caller owns is answered 409, the store  *)
(* unchanged, exactly when another row of the same caller has the same     *)
(* lowercase email; otherwise (the row's own email kept, or only its case  *)
(* changed, included) it is answered 200 and the row is rewritten.         *)
(***************************************************************************)
C7_OtherRowHasEmail(id, userId, email) ==
    \E r \in employees :
        r.id # id /\ r.userId = userId /\ Lower(r.email) = Lower(email)

C7_Rewritten(old, b) ==
    [id |-> old.id, firstName |-> b["firstName"], lastName |-> b["lastName"],
     email |-> b["email"], department |-> b["department"],
     salary |-> b["salary"].num, userId |-> old.userId]

C7_UpdateConflict ==
    [][\A h \in Handlers :
          (/\ Ran(h, "PUT /api/employees/:id")
           /\ ValidEmployee(req[h].body)
           /\ \E r \in employees : r.id = req[h].id /\ r.userId = req[h].userId)
          => LET old == CHOOSE r \in employees :
                           r.id = req[h].id /\ r.userId = req[h].userId
             IN IF C7_OtherRowHasEmail(req[h].id, req[h].userId,
                                       req[h].body["email"])
                THEN res'[h].status = 409 /\ employees' = employees
                ELSE /\ res'[h].status = 200
                     /\ employees' =
                          (employees \ {old})
                              \cup {C7_Rewritten(old, req[h].body)}
                     /\ res'[h].body =
                          <<Wire(C7_Rewritten(old, req[h].body))>>]_vars

\* An Update that changed only the letter case of its row's email has been
\* answered 200 while the caller holds a second row.
C7_Witness ==
    \E h \in Handlers :
        /\ Served(h, "PUT /api/employees/:id")
        /\ ValidEmployee(req[h].body)
        /\ res[h].status = 200
        /\ req[h].body["email"] = <<"A">>
        /\ \E r1, r2 \in employees :
              /\ r1.id = req[h].id /\ r1.userId = req[h].userId
              /\ r1.email = <<"A">>
              /\ r2.id # r1.id /\ r2.userId = r1.userId

(***************************************************************************)
(* C8: Delete by a caller who owns the row with the given id is answered   *)
(* 204 and removes exactly that row; Delete of an id for which the caller  *)
(* owns no row is answered 404 and leaves the store unchanged.             *)
(***************************************************************************)
C8_DeleteExactlyOne ==
    [][\A h \in Handlers :
          Ran(h, "DELETE /api/employees/:id") =>
             IF \E r \in employees : r.id = req[h].id /\ r.userId = req[h].userId
             THEN /\ res'[h].status = 204
                  /\ employees' =
                       employees \ {CHOOSE r \in employees :
                                       r.id = req[h].id
                                       /\ r.userId = req[h].userId}
                  /\ Cardinality(employees') = Cardinality(employees) - 1
             ELSE res'[h].status = 404 /\ employees' = employees]_vars

\* A Delete has been answered 204 and another row of the caller is left.
C8_Witness ==
    \E h \in Handlers :
        /\ Served(h, "DELETE /api/employees/:id")
        /\ res[h].status = 204
        /\ \A r \in employees : r.id # req[h].id
        /\ \E r \in employees : r.userId = req[h].userId

(***************************************************************************)
(* C2: two Creates of one owner with emails differing only by case.        *)
(***************************************************************************)
\* Handler g has answered a Create that pairs with the Create h is about to
\* run: same owner, both bodies valid, emails equal up to letter case, and
\* the email free for the owner before either INSERT ran (g stored it, or it
\* is still free now: no statement runs between g's INSERT and h's).
C2_Pair(h, g) ==
    /\ h # g
    /\ pc[h] = "query" /\ req[h].route = "POST /api/employees"
    /\ Served(g, "POST /api/employees")
    /\ req[g].userId = req[h].userId
    /\ ValidEmployee(req[h].body) /\ ValidEmployee(req[g].body)
    /\ req[g].body["email"] # req[h].body["email"]
    /\ Lower(req[g].body["email"]) = Lower(req[h].body["email"])
    /\ \/ res[g].status = 201
       \/ ~EmailTaken(employees, req[h].userId, req[h].body["email"])

\* C2: when two valid Creates of the same owner carry emails that differ only
\* by letter case, exactly one is answered 201 and stored and the other is
\* answered 409 and stores nothing, however the two handlers interleave.
C2_OneCreatedOneConflict ==
    [][\A h, g \in Handlers :
          (C2_Pair(h, g) /\ Ran(h, "POST /api/employees"))
          => /\ {res[g].status, res'[h].status} = {201, 409}
             /\ res'[h].status = 409 => employees' = employees
             /\ res'[h].status = 201 => Cardinality(employees') = Cardinality(employees) + 1]_vars

(***************************************************************************)
(* C9: the session cookie between login and logout.                        *)
(***************************************************************************)
\* The response of handler h reached the browser in this step.
Delivered(h) == pc[h] = "done" /\ pc'[h] = "idle"

\* The credentials of a login body are those of the users row u.
C9_Credentials(b, u) ==
    u.email = b["email"] /\ Compare(b["password"], u.password)

\* C9: a delivered successful login leaves the browser with a cookie that
\* reads as the id of the user whose credentials were given; the cookie
\* changes at no other step than the delivery of a successful login or of a
\* logout (no expiry); while the browser holds it, every employee request
\* passes the gate as that user and touches that user's rows only; a
\* delivered logout clears it, and while it is cleared every employee
\* request is answered 401.
C9_SessionUntilLogout ==
    [][/\ \A h \in Handlers :
             /\ (Delivered(h) /\ req[h].route = "POST /api/auth/login"
                   /\ res[h].status = 200)
                => /\ jar' # NoCookie
                   /\ \E u \in users :
                         /\ C9_Credentials(req[h].body, u)
                         /\ getUserIdFromCookie(Cookie(jar')) = u.id
             /\ (Delivered(h) /\ req[h].route = "POST /api/auth/logout")
                => jar' = NoCookie
             /\ (Arrived(h) /\ req'[h].route \in EmployeeRoutes)
                => IF jar = NoCookie
                   THEN pc'[h] = "done" /\ res'[h].status = 401
                   ELSE /\ req'[h].userId = getUserIdFromCookie(Cookie(jar))
                        /\ pc'[h] = "done" => res'[h].status # 401
             /\ Ran(h, "GET /api/employees")
                => /\ res'[h].status = 200
                   /\ {res'[h].body[i] : i \in DOMAIN res'[h].body}
                        = {Wire(r) : r \in {x \in employees :
                                              x.userId = req[h].userId}}
             /\ Ran(h, "POST /api/employees")
                => /\ \A r \in employees' \ employees : r.userId = req[h].userId
                   /\ employees \subseteq employees'
       /\ jar' # jar
          => \E h \in Handlers :
                /\ Delivered(h)
                /\ \/ req[h].route = "POST /api/auth/logout"
                   \/ req[h].route = "POST /api/auth/login" /\ res[h].status = 200
      ]_vars

\* After a login, a Create as the logged-in user and a logout, an employee
\* request of the browser has been answered 401.
C9_Witness ==
    /\ jar = NoCookie
    /\ employees # {}
    /\ \A r \in employees : Resolves(r.userId)
    /\ \E h \in Handlers :
          /\ pc[h] = "done"
          /\ req[h].route = "GET /api/employees"
          /\ res[h].status = 401

(***************************************************************************)
(* C10: two registrations with the same email.                             *)
(***************************************************************************)
\* C10: when two valid register requests carry the same email, exactly one
\* is answered 201 and the other 409, in every interleaving of their store
\* statements: once one of them has been answered 201, the other (whose id
\* is not in use) is answered 409 and adds no row.
C10_OneRegisteredOneConflict ==
    [][\A h, g \in Handlers :
          (/\ h # g
           /\ pc[h] \in {"query", "insert"} /\ pc'[h] = "done"
           /\ req[h].route = "POST /api/auth/register"
           /\ pc[g] = "done" /\ req[g].route = "POST /api/auth/register"
           /\ res[g].status = 201
           /\ req[g].body["email"] = req[h].body["email"]
           /\ pc[h] = "insert" => ~PkTaken(users, req[h].id))
          => res'[h].status = 409 /\ users' = users]_vars

(***************************************************************************)
(* C11: the page's array changes only on a success response.               *)
(***************************************************************************)
\* The routes of addEmployee, updateEmployee and deleteEmployee.
MutationRoutes ==
    {"POST /api/employees", "PUT /api/employees/:id",
     "DELETE /api/employees/:id"}

\* C11: the array of the page changes only in the step that handles a
\* success response: sending a request changes nothing (no optimistic
\* update), and the end of an add, update or delete whose response is not a
\* success, or was lost in transit, leaves the array as it was.
C11_CacheChangesOnSuccessOnly ==
    [][/\ \A h \in Handlers :
             /\ (Delivered(h) /\ req[h].route \in MutationRoutes /\ ~Ok(res[h]))
                => cache' = cache
             /\ FetchFailed(h) => cache' = cache
             /\ (Arrived(h) \/ (pc[h] = "query" /\ pc'[h] = "done"))
                => cache' = cache
       /\ cache' # cache
          => \E h \in Handlers : Delivered(h) /\ Ok(res[h])]_vars

\* A delete has been answered 404 while the array still has the record (the
\* row went with an earlier delete whose response is still on its way).
C11_Witness ==
    \E h \in Handlers :
       /\ pc[h] = "done"
       /\ req[h].route = "DELETE /api/employees/:id"
       /\ res[h].status = 404
       /\ FindIndex(cache, req[h].id) # 0

(***************************************************************************)
(* C17: two updates of one employee in flight: the last response wins.     *)
(***************************************************************************)
\* Handler h holds the success response of an update of employee id.
C17_Updated(h, id) ==
    /\ pc[h] = "done"
    /\ req[h].route = "PUT /api/employees/:id"
    /\ Ok(res[h])
    /\ req[h].id = id

\* C17: whenever the success response of an update is handled and the array
\* has the employee, the employee's entry becomes the record of that
\* response and no other entry changes: of two updates in flight, the one
\* whose response is handled last leaves its record, whichever the store
\* applied last.
C17_LastResponseWins ==
    [][\A h \in Handlers : \A id \in Ids :
          (C17_Updated(h, id) /\ UpdateResponse(h) /\ FindIndex(cache, id) # 0)
          => /\ Len(cache') = Len(cache)
             /\ cache'[FindIndex(cache, id)] = res[h].body[1]
             /\ \A i \in DOMAIN cache :
                   i # FindIndex(cache, id) => cache'[i] = cache[i]
             /\ \A g \in Handlers :
                   (g # h /\ C17_Updated(g, id)) => C17_Updated(g, id)']_vars

\* Two updates of the same employee have both succeeded with different
\* records, the store holds the record of the second, and the array has
\* just taken the record of the first response handled, which is the stale
\* one.
C17_Witness ==
    \E h \in Handlers : \E id \in Ids :
       /\ C17_Updated(h, id)
       /\ \A g \in Handlers : g # h => pc[g] = "idle"
       /\ FindIndex(cache, id) # 0
       /\ cache[FindIndex(cache, id)] # res[h].body[1]
       /\ \E r \in employees : r.id = id /\ Wire(r) = cache[FindIndex(cache, id)]

(***************************************************************************)
(* C18: a Create is refused as a conflict only for its email.              *)
(***************************************************************************)
\* C18: a valid Create is answered 409 only if the caller already owns a row
\* with the same lowercase email.
C18_ConflictOnlyForEmail ==
    [][\A h \in Handlers :
          (/\ Ran(h, "POST /api/employees")
           /\ ValidEmployee(req[h].body)
           /\ ~EmailTaken(employees, req[h].userId, req[h].body["email"]))
          => res'[h].status # 409]_vars

(***************************************************************************)
(* C19: after every completed action the array equals the user's rows.     *)
(***************************************************************************)
\* The rows the store holds for the user of the session, as the API shows
\* them.
C19_StoreRows ==
    {Wire(r) : r \in {x \in employees : x.userId = SessionUser.id}}

\* C19: in a session that runs one action at a time from a successful load,
\* whenever no fetch is in flight the records of the array are exactly the
\* rows the store holds for the user, each once.
C19_CacheEqualsStore ==
    (listening /\ NoFetch)
    => /\ {cache[i] : i \in DOMAIN cache} = C19_StoreRows
       /\ Len(cache) = Cardinality(C19_StoreRows)

\* After an add and an edit the array holds two records, one of them not a
\* row the page was loaded with.
C19_Witness ==
    /\ listening /\ NoFetch
    /\ Len(cache) = 2
    /\ \E i \in DOMAIN cache : cache[i].email = <<"A">>

(***************************************************************************)
(* C12: the current page stays inside the pages of the filtered view.      *)
(***************************************************************************)
\* C12: in every state of the page, after any sequence of add, edit, delete,
\* search, department filter, sort, page size and prev/next actions,
\* 1 <= currentPage <= max(1, ceil(filteredCount / pageSize)).
C12_PageInRange ==
    /\ 1 <= currentPage
    /\ currentPage <= TotalPages

(***************************************************************************)
(* C13: the rendered rows as a function of the seven inputs.               *)
(***************************************************************************)
\* The inputs of the view pipeline: the record set of the array, the search
\* text, the department filter, the sort field and direction, the page
\* number and the page size.
C13_Inputs ==
    <<{cache[i] : i \in DOMAIN cache}, searchInput, filterDepartment,
      sortField, sortDirection, currentPage, rowsPerPage>>

\* C13: the rendered rows are a function of the seven inputs alone: a
\* history and its extension by a step that ends with the same seven values
\* show the same rows in the same order.
C13_RowsFollowInputs ==
    [][C13_Inputs' = C13_Inputs => tableBody' = tableBody]_vars

(***************************************************************************)
(* C14: salary ascending, then descending.                                 *)
(***************************************************************************)
\* Array.prototype.reverse
Reverse(seq) == [i \in DOMAIN seq |-> seq[Len(seq) + 1 - i]]

\* C14: with the filtered view sorted by salary ascending, the click that
\* toggles it to salary descending yields the ascending sequence exactly
\* reversed.
C14_DescendingIsReversed ==
    [][(/\ sortField = "salary" /\ sortDirection = "asc"
        /\ sortField' = "salary" /\ sortDirection' = "desc")
       => filteredEmployees' = Reverse(filteredEmployees)]_vars

\* No two records of the filtered view have the same salary.
C14_DistinctSalaries ==
    \A i, j \in DOMAIN filteredEmployees :
        i # j => filteredEmployees[i].salary # filteredEmployees[j].salary

\* C14 (amended): with the filtered view sorted by salary ascending and no
\* two of its records on the same salary, the click that toggles it to
\* salary descending yields the ascending sequence exactly reversed; records
\* on the same salary keep the order they had.
C14_DescendingIsReversedDistinct ==
    [][(/\ sortField = "salary" /\ sortDirection = "asc"
        /\ sortField' = "salary" /\ sortDirection' = "desc"
        /\ C14_DistinctSalaries)
       => filteredEmployees' = Reverse(filteredEmployees)]_vars

\* Two records on different salaries, toggled to salary descending.
C14_Witness ==
    /\ sortField = "salary" /\ sortDirection = "desc"
    /\ Len(filteredEmployees) = 2
    /\ filteredEmployees[1].salary > filteredEmployees[2].salary
    /\ tableBody = filteredEmployees

(***************************************************************************)
(* C15: the rows of a page.                                                *)
(***************************************************************************)
\* Records first..last of the filtered view.
C15_Records(first, last) ==
    [i \in 1..(last - first + 1) |-> filteredEmployees[first + i - 1]]

\* C15: with n records in the filtered view and page size s, page p with
\* 1 <= p <= ceil(n/s) shows exactly records (p-1)*s+1 .. min(p*s, n); and
\* where a request for a page past the last one can be made (the next
\* button is enabled and the page it asks for is beyond the last), the
\* client is on the last page, which changePage leaves it on.
C15_PageSlice ==
    LET n == Len(filteredEmployees)
        s == rowsPerPage
        p == currentPage
    IN /\ (listening /\ 1 <= p /\ p <= CeilDiv(n, s))
          => tableBody = C15_Records((p - 1) * s + 1,
                                     IF p * s < n THEN p * s ELSE n)
       /\ (listening /\ ~NextPageDisabled /\ p + 1 > CeilDiv(n, s))
          => p = TotalPages

(***************************************************************************)
(* C16: the lines of the CSV export.                                       *)
(***************************************************************************)
\* The lines of a text: its pieces between line breaks.
RECURSIVE C16_Lines(_)
C16_Lines(text) ==
    LET breaks == {i \in DOMAIN text : text[i] = "\n"}
    IN IF breaks = {} THEN <<text>>
       ELSE LET at == CHOOSE i \in breaks : \A j \in breaks : i <= j
            IN <<SubSeq(text, 1, at - 1)>>
                 \o C16_Lines(SubSeq(text, at + 1, Len(text)))

\* C16: the file of a CSV export is the header line followed by exactly one
\* line per record of the filtered view (all pages), in view order; for an
\* empty view it is the header line alone.
C16_OneLinePerRecord ==
    [][download' # download
       => LET lines == C16_Lines(download')
          IN /\ Len(lines) = 1 + Len(filteredEmployees)
             /\ lines[1] = CsvHeader
             /\ \A i \in DOMAIN filteredEmployees :
                   lines[i + 1] = CsvRow(filteredEmployees[i])
             /\ filteredEmployees = <<>> => download' = CsvHeader]_vars

====
